---- MODULE Spec2Model ----
(***************************************************************************)
(* State-machine model of the hono-typeorm task API:                       *)
(*   - the auth routes (register, login, request-verification, verify),    *)
(*   - the /tasks routes behind the authentication middleware,             *)
(*   - the user context module (one module-level variable currentUser).    *)
(*                                                                         *)
(* Every request runs as its own logical task.  A step of the model is the *)
(* code between two awaits that touch shared state (store, pool, mailer,   *)
(* currentUser); awaits on request-local work (re-reading the cached body, *)
(* signing) are folded into the step that follows them.                    *)
(*                                                                         *)
(* Time is counted in minutes.                                             *)
(***************************************************************************)
EXTENDS Integers, Sequences, FiniteSets, Bags, TLC

(* ------------------------------ bounds --------------------------------- *)
MaxRegisterRequests == 3   \* requests budget in one run of SpecRegister
MaxAuthRequests == 2       \* requests budget in one run of SpecAuth
MaxTaskRequests == 3       \* requests budget in one run of SpecTasks
MaxFaults == 2             \* infrastructure failures in one run of SpecRegister
MaxAuthFaults == 1         \* infrastructure failures in one run of SpecAuth
MaxTicks == 2              \* clock advances in one run

Slots == {1, 2}                       \* requests that can be in flight together
Emails == {"a@x.io", "b@x.io"}
Passwords == {"secret1", "secret2"}

(* ------------------------- program constants --------------------------- *)
TickStep == 10               \* minutes the model clock advances at a time
VerifyWindow == 10           \* 1000 * 60 * 10 ms
JwtLifetime == 60            \* 60 * 60 s
RefreshLifetime == 1440      \* addDays(new Date(), 1)
BcryptRounds == 12

VARIABLES
    users,          \* rows of table users (txn = 0: committed, else the open
                    \* transaction of request slot txn)
    refreshTokens,  \* rows of table refresh_token
    tasks,          \* rows of table tasks
    nextId,         \* [users, refreshTokens, tasks |-> next auto-increment id]
    currentUser,    \* the module variable of user.context (0 = null)
    poolHeld,       \* connections of the pool checked out by query runners
    mails,          \* messages handed to the mail transport
    now,            \* Date.now(), minutes
    req,            \* per slot: the request in flight and its locals
    budget,         \* requests the run still accepts
    faults,         \* infrastructure failures the run can still suffer
    ticks,          \* clock advances the run can still make
    responses       \* bag of user ids: the successful register and login
                    \* responses returned so far, one copy each

vars == <<users, refreshTokens, tasks, nextId, currentUser, poolHeld, mails,
          now, req, budget, faults, ticks, responses>>

store == <<users, refreshTokens, tasks, nextId>>

(* ------------------------------ values --------------------------------- *)
NoToken == [userId |-> 0, email |-> "", exp |-> 0, sig |-> "none"]

NoSignature == [mac |-> <<>>]

IdleReq ==
    [kind |-> "none", pc |-> "idle",
     email |-> "", password |-> "", rawAt |-> <<>>, signature |-> NoSignature,
     bearer |-> NoToken, taskId |-> 0, title |-> "", perPage |-> <<>>, page |-> <<>>,
     status |-> 0, msg |-> "", token |-> NoToken, refreshToken |-> 0,
     runner |-> "none", txActive |-> FALSE, obtained |-> 0, releases |-> 0,
     err |-> "", raised |-> "",
     uid |-> 0, at |-> 0,
     authUser |-> 0, readUser |-> 0, result |-> {}]

(* User rows a statement outside the writing transaction can see. *)
Committed == {u \in users : u.txn = 0}

(* ------------------------------ bcrypt --------------------------------- *)
\* bcrypt.hash(password, 12): a salted one-way digest of the password.
BcryptHash(p) == <<"$2b$", BcryptRounds, p>>

\* bcrypt.compare(password, stored)
BcryptCompare(p, h) == h = BcryptHash(p)

(* -------------------------------- jwt ---------------------------------- *)
\* sign({userId, firstName, lastName, email, exp}, JWT_SECRET)
Sign(u, t) ==
    [userId |-> u.id, email |-> u.email, exp |-> t + JwtLifetime, sig |-> "ok"]

(* ------------------------ AppDataSource.manager ------------------------ *)
\* manager.existsBy(User, {email})
ExistsByEmail(e) == \E u \in Committed : u.email = e

\* manager.findOneBy(User, {email}): the row, as a set of at most one
FindUserByEmail(e) == {u \in Committed : u.email = e}

(* ------------------------- request bookkeeping ------------------------- *)
Upd(r, f) == req' = [req EXCEPT ![r] = f]

Respond(q, code, message) ==
    [q EXCEPT !.pc = "done", !.status = code, !.msg = message]

At(r, k, p) == req[r].kind = k /\ req[r].pc = p

\* The responses returned once request q of register or login is answered:
\* return c.json({message, data: {...token}}) is the 200 response.
Returned(q) ==
    IF q.status = 200 THEN responses (+) SetToBag({q.uid}) ELSE responses

CanFail == faults > 0

Fail == faults' = faults - 1

\* Requests are accepted into the lowest free slot.
Free(r) ==
    /\ req[r].pc \in {"idle", "done"}
    /\ \A s \in Slots : s < r => req[s].pc \notin {"idle", "done"}
    /\ budget > 0

(* ----------------------------- register -------------------------------- *)
\* A POST /auth/register request arrives with a well-formed body.
ArriveRegister(r) ==
    /\ Free(r)
    /\ \E e \in Emails, p \in Passwords :
         Upd(r, [IdleReq EXCEPT !.kind = "register", !.pc = "validate",
                                !.email = e, !.password = p])
    /\ budget' = budget - 1
    /\ UNCHANGED <<store, currentUser, poolHeld, mails, now, faults, ticks, responses>>

\* validate that calls next() whatever the refinement says
RegisterValidateNoRefine(q) == [q EXCEPT !.pc = "connect", !.runner = "created"]

\* validate(schema): parseAsync runs the email refinement (existsBy); a
\* ZodError is answered 400 and next() is not called.
RegisterValidateStep(q) ==
    IF ExistsByEmail(q.email)
    THEN Respond(q, 400, "ZodError: Email already exists!")
    ELSE [q EXCEPT !.pc = "connect", !.runner = "created"]

RegisterValidate(r) ==
    /\ At(r, "register", "validate")
    /\ Upd(r, RegisterValidateStep(req[r]))
    /\ UNCHANGED <<store, currentUser, poolHeld, mails, now, budget, faults, ticks, responses>>

\* await queryRunner.connect()
RegisterConnect(r) ==
    /\ At(r, "register", "connect")
    /\ \/ /\ Upd(r, [req[r] EXCEPT !.pc = "startTransaction",
                                   !.runner = "connected", !.obtained = @ + 1])
          /\ poolHeld' = poolHeld + 1
          /\ UNCHANGED faults
       \/ /\ CanFail /\ Fail
          /\ Upd(r, [req[r] EXCEPT !.pc = "catch", !.err = "ConnectError"])
          /\ UNCHANGED poolHeld
    /\ UNCHANGED <<store, currentUser, mails, now, budget, ticks, responses>>

\* await queryRunner.startTransaction().  When it throws, the runner may
\* or may not already count the transaction as active (it sets the flag
\* before it sends START TRANSACTION, and resets it on some failures).
RegisterStartTransaction(r) ==
    /\ At(r, "register", "startTransaction")
    /\ \/ /\ Upd(r, [req[r] EXCEPT !.pc = "insert", !.txActive = TRUE])
          /\ UNCHANGED faults
       \/ /\ CanFail /\ Fail
          /\ \E active \in BOOLEAN :
                Upd(r, [req[r] EXCEPT !.pc = "catch", !.txActive = active,
                                      !.err = "StartTransactionError"])
    /\ UNCHANGED <<store, currentUser, poolHeld, mails, now, budget, ticks, responses>>

\* users.email without its unique index
EmailTakenNoIndex(e) == FALSE

\* The unique index on users.email: does the store refuse a row with email e?
EmailTaken(e) == \E u \in Committed : u.email = e

\* A row with the same email written by a transaction still open: the
\* insert waits on its index lock.
EmailLocked(r, e) == \E u \in users : u.email = e /\ u.txn \notin {0, r}

\* new User() with the payload's email and the bcrypt hash of its password
NewUser(r, q) ==
    [id |-> nextId.users, email |-> q.email, password |-> BcryptHash(q.password),
     emailVerifiedAt |-> <<>>, txn |-> r]

\* payload = await c.req.json(); user.password = await bcrypt.hash(...);
\* await queryRunner.manager.save(user)
RegisterInsert(r) ==
    /\ At(r, "register", "insert")
    /\ \/ /\ CanFail /\ Fail
          /\ Upd(r, [req[r] EXCEPT !.pc = "catch", !.err = "HashError"])
          /\ UNCHANGED <<users, nextId>>
       \/ /\ EmailTaken(req[r].email)
          /\ Upd(r, [req[r] EXCEPT !.pc = "catch",
                                   !.err = "QueryFailedError: ER_DUP_ENTRY"])
          /\ UNCHANGED <<users, nextId, faults>>
       \/ /\ ~EmailTaken(req[r].email)
          /\ ~EmailLocked(r, req[r].email)
          /\ users' = users \cup {NewUser(r, req[r])}
          /\ nextId' = [nextId EXCEPT !.users = @ + 1]
          /\ Upd(r, [req[r] EXCEPT !.pc = "commit", !.uid = nextId.users])
          /\ UNCHANGED faults
       \/ /\ CanFail /\ Fail
          /\ Upd(r, [req[r] EXCEPT !.pc = "catch", !.err = "InsertError"])
          /\ UNCHANGED <<users, nextId>>
    /\ UNCHANGED <<refreshTokens, tasks, currentUser, poolHeld, mails, now,
                   budget, ticks, responses>>

\* The rows of the store once the transaction of slot r commits / is undone.
CommitRows(r) == {[u EXCEPT !.txn = IF @ = r THEN 0 ELSE @] : u \in users}

RollbackRows(r) == {u \in users : u.txn # r}

\* await queryRunner.commitTransaction()
RegisterCommit(r) ==
    /\ At(r, "register", "commit")
    /\ \/ /\ users' = CommitRows(r)
          /\ Upd(r, [req[r] EXCEPT !.pc = "issue", !.txActive = FALSE])
          /\ UNCHANGED faults
       \/ /\ CanFail /\ Fail
          /\ Upd(r, [req[r] EXCEPT !.pc = "catch", !.err = "CommitError"])
          /\ UNCHANGED users
    /\ UNCHANGED <<refreshTokens, tasks, nextId, currentUser, poolHeld, mails,
                   now, budget, ticks, responses>>

(* ------------------------- generateUserToken --------------------------- *)
\* new RefreshToken(): token = randomUUID() (a fresh value), user, createdAt,
\* expiredAt = addDays(new Date(), 1)
NewRefreshToken(q) ==
    [id |-> nextId.refreshTokens, token |-> nextId.refreshTokens,
     user |-> q.uid, createdAt |-> now, expiredAt |-> now + RefreshLifetime]

\* The locals of request q once generateUserToken returned: the signed
\* JWT and the token of the row saved.
Issued(q) ==
    [q EXCEPT !.token = Sign([id |-> q.uid, email |-> q.email], now),
              !.refreshToken = nextId.refreshTokens]

\* A generateUserToken that rotates: the new row replaces the user's rows
GenerateUserTokenRotating(r, returned, thrown) ==
    \/ /\ refreshTokens' = {t \in refreshTokens : t.user # req[r].uid}
                                \cup {NewRefreshToken(req[r])}
       /\ nextId' = [nextId EXCEPT !.refreshTokens = @ + 1]
       /\ Upd(r, returned)
       /\ UNCHANGED faults
    \/ /\ CanFail /\ Fail
       /\ Upd(r, [thrown EXCEPT !.err = "SaveTokenError"])
       /\ UNCHANGED <<refreshTokens, nextId>>

\* generateUserToken(user): sign the JWT, save one RefreshToken row, return
\* both; a failed save throws and leaves no row.  returned and thrown are
\* the request after the caller took the result, and the error.
GenerateUserToken(r, returned, thrown) ==
    \/ /\ refreshTokens' = refreshTokens \cup {NewRefreshToken(req[r])}
       /\ nextId' = [nextId EXCEPT !.refreshTokens = @ + 1]
       /\ Upd(r, returned)
       /\ UNCHANGED faults
    \/ /\ CanFail /\ Fail
       /\ Upd(r, [thrown EXCEPT !.err = "SaveTokenError"])
       /\ UNCHANGED <<refreshTokens, nextId>>

RegisterReturn(q) == [q EXCEPT !.pc = "finally"]

RegisterThrow(q) == [q EXCEPT !.pc = "catch"]

\* const token = await generateUserToken(user); return c.json(...)
RegisterIssue(r) ==
    /\ At(r, "register", "issue")
    /\ GenerateUserToken(r, RegisterReturn(Issued(req[r])), RegisterThrow(req[r]))
    /\ UNCHANGED <<users, tasks, currentUser, poolHeld, mails, now, budget, ticks, responses>>

\* Does the runner of request q hold a connection of the pool?
Holds(q) == q.obtained > q.releases

\* release() after the try statement instead of in a finally block: an
\* error thrown out of the catch block skips it
RegisterCatchNoFinally(q, rollbackFails) ==
    IF ~q.txActive
    THEN Respond(q, 500, "TransactionNotStartedError")
    ELSE IF rollbackFails
    THEN Respond(q, 500, "RollbackError")
    ELSE Respond([q EXCEPT !.txActive = FALSE], 500, q.err)

\* catch (error) { await queryRunner.rollbackTransaction(); throw error; }
\* rollbackTransaction throws TransactionNotStartedError when the runner has
\* no active transaction.  A ROLLBACK that fails is a lost connection: the
\* server undoes the open transaction.
RegisterCatchStep(q, rollbackFails) ==
    IF ~q.txActive
    THEN [q EXCEPT !.pc = "finally", !.raised = "TransactionNotStartedError"]
    ELSE IF rollbackFails
    THEN [q EXCEPT !.pc = "finally", !.raised = "RollbackError"]
    ELSE [q EXCEPT !.pc = "finally", !.txActive = FALSE, !.raised = q.err]

RegisterCatch(r) ==
    /\ At(r, "register", "catch")
    /\ \/ /\ Upd(r, RegisterCatchStep(req[r], FALSE))
          /\ UNCHANGED faults
       \/ /\ CanFail /\ Fail
          /\ req[r].txActive
          /\ Upd(r, RegisterCatchStep(req[r], TRUE))
    /\ users' = IF req[r].txActive THEN RollbackRows(r) ELSE users
    /\ poolHeld' = poolHeld - (req'[r].releases - req[r].releases)
    /\ UNCHANGED <<refreshTokens, tasks, nextId, currentUser, mails,
                   now, budget, ticks, responses>>

\* finally { await queryRunner.release(); } and then the response: the
\* value returned by the try block, or the error thrown out of the catch
\* block, which app.onError answers with 500.
RegisterFinallyStep(q) ==
    LET released == [q EXCEPT !.runner = "released",
                              !.releases = IF Holds(q) THEN @ + 1 ELSE @]
    IN  IF q.raised # ""
        THEN Respond(released, 500, q.raised)
        ELSE Respond(released, 200, "Successfully registration user")

RegisterFinally(r) ==
    /\ At(r, "register", "finally")
    /\ Upd(r, RegisterFinallyStep(req[r]))
    /\ poolHeld' = poolHeld - (req'[r].releases - req[r].releases)
    /\ responses' = Returned(req'[r])
    /\ UNCHANGED <<store, currentUser, mails, now, budget, faults, ticks>>

(* ------------------------------- login --------------------------------- *)
\* A POST /auth/login request arrives with a well-formed body.
ArriveLogin(r) ==
    /\ Free(r)
    /\ \E e \in Emails, p \in Passwords :
         Upd(r, [IdleReq EXCEPT !.kind = "login", !.pc = "lookup",
                                !.email = e, !.password = p])
    /\ budget' = budget - 1
    /\ UNCHANGED <<store, currentUser, poolHeld, mails, now, faults, ticks, responses>>

\* A login that answers a missing user differently from a wrong password
LoginLookupDistinguishing(q, found) ==
    IF found = {}
    THEN Respond(q, 404, "User not found")
    ELSE LET u == CHOOSE u \in found : TRUE
         IN  IF ~BcryptCompare(q.password, u.password)
             THEN Respond([q EXCEPT !.uid = u.id], 400, "Invalid email or password")
             ELSE [q EXCEPT !.uid = u.id, !.pc = "issue"]

\* matchedUser = await findOneBy(User, {email});
\* if (!matchedUser || !(await bcrypt.compare(password, matchedUser.password)))
\*     return context.json({message: "Invalid email or password"}, 400)
LoginLookupStep(q, found) ==
    IF found = {}
    THEN Respond(q, 400, "Invalid email or password")
    ELSE LET u == CHOOSE u \in found : TRUE
         IN  IF ~BcryptCompare(q.password, u.password)
             THEN Respond([q EXCEPT !.uid = u.id], 400, "Invalid email or password")
             ELSE [q EXCEPT !.uid = u.id, !.pc = "issue"]

LoginLookup(r) ==
    /\ At(r, "login", "lookup")
    /\ Upd(r, LoginLookupStep(req[r], FindUserByEmail(req[r].email)))
    /\ UNCHANGED <<store, currentUser, poolHeld, mails, now, budget, faults, ticks, responses>>

LoginReturn(q) == Respond(q, 200, "Successfully logged in")

\* An error thrown by the handler reaches app.onError: 500.
LoginThrow(q) ==
    Respond([q EXCEPT !.raised = "SaveTokenError"], 500, "SaveTokenError")

\* const token = await generateUserToken(matchedUser); return json(...)
LoginIssue(r) ==
    /\ At(r, "login", "issue")
    /\ GenerateUserToken(r, LoginReturn(Issued(req[r])), LoginThrow(req[r]))
    /\ responses' = Returned(req'[r])
    /\ UNCHANGED <<users, tasks, currentUser, poolHeld, mails, now, budget, ticks>>

(* ------------------------ strings and hashHmac ------------------------- *)
DigitChars == <<"0", "1", "2", "3", "4", "5", "6", "7", "8", "9">>

IsDigit(c) == \E d \in 1..10 : DigitChars[d] = c

DigitValue(c) == (CHOOSE d \in 1..10 : DigitChars[d] = c) - 1

\* String(n) for a non-negative integer, as a sequence of characters
RECURSIVE ToStr(_)
ToStr(n) ==
    IF n < 10 THEN <<DigitChars[n + 1]>>
    ELSE ToStr(n \div 10) \o <<DigitChars[(n % 10) + 1]>>

RECURSIVE ParseDigits(_, _, _)
ParseDigits(s, i, acc) ==
    IF i > Len(s) \/ ~IsDigit(s[i]) THEN acc
    ELSE ParseDigits(s, i + 1, acc * 10 + DigitValue(s[i]))

\* parseInt(s): the value of the longest prefix of digits, <<n>>; NaN, <<>>,
\* when s does not start with a digit.
ParseInt(s) ==
    IF s = <<>> \/ ~IsDigit(s[1]) THEN <<>> ELSE <<ParseDigits(s, 1, 0)>>

\* `${email}#${request_at}`
Payload(e, raw) == <<e, "#">> \o raw

\* hashHmac(data): HMAC-SHA256 under JWT_SECRET, hex; one digest per input.
HashHmac(data) == [mac |-> data]

\* A signature made without the secret.
Forged == [mac |-> <<"forged">>]

(* ------------------------ request-verification ------------------------- *)
\* A POST /auth/request-verification request arrives with a well-formed body.
ArriveRequestVerification(r) ==
    /\ Free(r)
    /\ \E e \in Emails :
         Upd(r, [IdleReq EXCEPT !.kind = "requestVerification", !.pc = "lookup",
                                !.email = e])
    /\ budget' = budget - 1
    /\ UNCHANGED <<store, currentUser, poolHeld, mails, now, faults, ticks, responses>>

\* manager.findOneBy(User, {email, emailVerifiedAt: null}).  TypeORM's find
\* options skip a property whose value is null or undefined (a null test is
\* written IsNull()), so the statement filters on email alone.
FindUnverifiedUserByEmail(e) == FindUserByEmail(e)

\* user = await findOneBy(...); if (!user) return json({message: "User not
\* found"}, 404)
RequestVerificationLookupStep(q, found) ==
    IF found = {}
    THEN Respond(q, 404, "User not found")
    ELSE [q EXCEPT !.pc = "send", !.uid = (CHOOSE u \in found : TRUE).id]

RequestVerificationLookup(r) ==
    /\ At(r, "requestVerification", "lookup")
    /\ Upd(r, RequestVerificationLookupStep(req[r],
                                            FindUnverifiedUserByEmail(req[r].email)))
    /\ UNCHANGED <<store, currentUser, poolHeld, mails, now, budget, faults, ticks, responses>>

\* loggedDate = new Date().getTime(); the query string of verificationUrl
VerificationLink(e, t) ==
    [to |-> e, requestAt |-> ToStr(t),
     signature |-> HashHmac(Payload(e, ToStr(t)))]

\* await sendMail(user.email, "Email Verification", verificationUrl): the
\* transport either takes the message or fails, which sendMail only logs;
\* then return json({status: "success"}).
RequestVerificationSend(r) ==
    /\ At(r, "requestVerification", "send")
    /\ \/ /\ mails' = mails \cup {VerificationLink(req[r].email, now)}
          /\ UNCHANGED faults
       \/ /\ CanFail /\ Fail
          /\ UNCHANGED mails
    /\ Upd(r, Respond(req[r], 200, "success"))
    /\ UNCHANGED <<store, currentUser, poolHeld, now, budget, ticks, responses>>

(* ------------------------------- verify -------------------------------- *)
\* Timestamps a client may send that no link carries.
Garbled == {<<"x">>}

\* request_at: the start of the run, a value no link carries, or the value
\* of a link that was mailed.
RawInputs == {ToStr(0)} \cup Garbled \cup {m.requestAt : m \in mails}

\* signature: the digest of the request's own email and request_at, or not.
SignatureInputs(e, raw) == {HashHmac(Payload(e, raw)), Forged}

\* A GET /auth/verify?email&request_at&signature request arrives.
ArriveVerify(r) ==
    /\ Free(r)
    /\ \E e \in Emails, raw \in RawInputs :
         \E sig \in SignatureInputs(e, raw) :
            Upd(r, [IdleReq EXCEPT !.kind = "verify", !.pc = "check",
                                   !.email = e, !.rawAt = raw, !.signature = sig])
    /\ budget' = budget - 1
    /\ UNCHANGED <<store, currentUser, poolHeld, mails, now, faults, ticks, responses>>

\* hashHmac(`${email}#${request_at}`) !== signature
SignatureMismatch(e, raw, sig) == HashHmac(Payload(e, raw)) # sig

\* timeDiff = currentDate.getTime() - new Date(parseInt(request_at)).getTime();
\* timeDiff > 1000 * 60 * 10.  With request_at not a number timeDiff is NaN
\* and the comparison is false.
RequestExpired(raw, t) ==
    /\ ParseInt(raw) # <<>>
    /\ t - ParseInt(raw)[1] > VerifyWindow

\* The handler up to the result of findOneBy(User, {email}).
VerifyCheckStep(q, t, found) ==
    IF SignatureMismatch(q.email, q.rawAt, q.signature)
    THEN Respond([q EXCEPT !.at = t], 400, "Invalid signature")
    ELSE IF RequestExpired(q.rawAt, t)
    THEN Respond([q EXCEPT !.at = t], 400, "Request expired")
    ELSE IF found = {}
    THEN Respond([q EXCEPT !.at = t], 404, "User not found")
    ELSE [q EXCEPT !.at = t, !.pc = "save", !.uid = (CHOOSE u \in found : TRUE).id]

VerifyCheck(r) ==
    /\ At(r, "verify", "check")
    /\ Upd(r, VerifyCheckStep(req[r], now, FindUserByEmail(req[r].email)))
    /\ UNCHANGED <<store, currentUser, poolHeld, mails, now, budget, faults, ticks, responses>>

\* An UPDATE that is not restricted to the user's row
SaveVerifiedEveryone(id, t) == {[u EXCEPT !.emailVerifiedAt = <<t>>] : u \in users}

\* user.emailVerifiedAt = currentDate; await manager.save(user)
SaveVerified(id, t) ==
    {IF u.id = id THEN [u EXCEPT !.emailVerifiedAt = <<t>>] ELSE u : u \in users}

VerifySave(r) ==
    /\ At(r, "verify", "save")
    /\ \/ /\ users' = SaveVerified(req[r].uid, req[r].at)
          /\ Upd(r, Respond(req[r], 200, "success"))
          /\ UNCHANGED faults
       \/ /\ CanFail /\ Fail
          /\ Upd(r, Respond([req[r] EXCEPT !.err = "SaveError", !.raised = "SaveError"],
                            500, "SaveError"))
          /\ UNCHANGED users
    /\ UNCHANGED <<refreshTokens, tasks, nextId, currentUser, poolHeld, mails,
                   now, budget, ticks, responses>>

(* -------------------------------- clock -------------------------------- *)
Tick ==
    /\ ticks > 0
    /\ ticks' = ticks - 1
    /\ now' = now + TickStep
    /\ UNCHANGED <<store, currentUser, poolHeld, mails, req, budget, faults,
                   responses>>

(* --------------------------- user context ------------------------------ *)
\* setUser(user): currentUser = user
SetUser(id) == currentUser' = id

\* getUser(): return currentUser
GetUser == currentUser

(* ---------------------- authentication middleware ---------------------- *)
\* Session tokens signed for user u at time t.
TokenOf(u, t) == Sign(u, t)

\* verify(token, JWT_SECRET): "" when the token verifies, else the error
\* thrown.  A missing Authorization header makes token undefined; exp is
\* checked before the signature.
JwtVerify(token, t) ==
    IF token = NoToken THEN "TypeError"
    ELSE IF token.exp <= t THEN "JwtTokenExpired"
    ELSE IF token.sig # "ok" THEN "JwtTokenSignatureMismatched"
    ELSE ""

\* app.onError
OnError(q, e) ==
    IF e = "JwtTokenExpired"
    THEN Respond([q EXCEPT !.raised = e], 401, "Token expired")
    ELSE Respond([q EXCEPT !.raised = e], 500, e)

UserIdOf(found) == IF found = {} THEN 0 ELSE (CHOOSE u \in found : TRUE).id

\* The middleware up to `await next()`; `first` is where the route's chain
\* stops at its first await.
AuthenticationStep(q, first) ==
    LET e == JwtVerify(q.bearer, now)
    IN  IF e # "" THEN OnError(q, e)
        ELSE [q EXCEPT !.pc = first,
                       !.authUser = UserIdOf(FindUserByEmail(q.bearer.email))]

Bearers ==
    {TokenOf(u, now) : u \in Committed}
        \cup {[TokenOf(u, now) EXCEPT !.exp = now] : u \in {v \in Committed : v.id = 1}}
        \cup {[TokenOf(u, now) EXCEPT !.sig = "bad"] : u \in {v \in Committed : v.id = 1}}
        \cup {NoToken}

TaskKinds == {"list", "create", "update", "delete"}

\* The route's chain from next() to its first await.
FirstAwait(k) ==
    CASE k = "list" -> "getUser"
      [] k = "create" -> "validate"
      [] k = "update" -> "validate"
      [] k = "delete" -> "find"

\* authentication(): verify the bearer token, load its user, setUser(user),
\* await next().  DELETE's handler calls getUser() before its first await,
\* in the same turn.
Authenticate(r) ==
    /\ req[r].kind \in TaskKinds
    /\ req[r].pc = "authenticate"
    /\ LET q == AuthenticationStep(req[r], FirstAwait(req[r].kind))
       IN  IF q.pc = "done"
           THEN Upd(r, q) /\ UNCHANGED currentUser
           ELSE /\ SetUser(q.authUser)
                /\ Upd(r, IF q.kind = "delete"
                          THEN [q EXCEPT !.readUser = q.authUser]
                          ELSE q)
    /\ UNCHANGED <<store, poolHeld, mails, now, budget, faults, ticks, responses>>

(* ------------------------------ GET /tasks ----------------------------- *)
DefaultPerPage == 10

\* parseInt(s) || d
ParseIntOr(s, d) ==
    IF ParseInt(s) = <<>> \/ ParseInt(s) = <<0>> THEN d ELSE ParseInt(s)[1]

ArriveList(r) ==
    /\ Free(r)
    /\ \E b \in Bearers, pp \in {<<>>, <<"1">>}, pg \in {<<>>, <<"2">>} :
         Upd(r, [IdleReq EXCEPT !.kind = "list", !.pc = "authenticate",
                                !.bearer = b, !.perPage = pp, !.page = pg])
    /\ budget' = budget - 1
    /\ UNCHANGED <<store, currentUser, poolHeld, mails, now, faults, ticks, responses>>

\* const {per_page, page} = await context.req.query(); const user = getUser()
ListGetUser(r) ==
    /\ At(r, "list", "getUser")
    /\ Upd(r, [req[r] EXCEPT !.pc = "find", !.readUser = GetUser])
    /\ UNCHANGED <<store, currentUser, poolHeld, mails, now, budget, faults, ticks, responses>>

\* Rows of a user, newest first (ties in createdAt by id), as a sequence.
RECURSIVE Newest(_)
Newest(S) ==
    IF S = {} THEN <<>>
    ELSE LET t == CHOOSE t \in S :
                    \A o \in S : o.createdAt < t.createdAt
                                 \/ (o.createdAt = t.createdAt /\ o.id >= t.id)
         IN  <<t>> \o Newest(S \ {t})

\* find(Task, {where: {user}, take, skip, order: {createdAt: "DESC"}})
FindTasks(uid, take, skip) ==
    LET sorted == Newest({t \in tasks : t.user = uid})
    IN  {sorted[i] : i \in {j \in 1..Len(sorted) : j > skip /\ j <= skip + take}}

ListFindStep(q) ==
    LET take == ParseIntOr(q.perPage, DefaultPerPage)
        skip == (ParseIntOr(q.page, 1) - 1) * take
    IN  Respond([q EXCEPT !.result = FindTasks(q.readUser, take, skip)],
                200, "success")

ListFind(r) ==
    /\ At(r, "list", "find")
    /\ Upd(r, ListFindStep(req[r]))
    /\ UNCHANGED <<store, currentUser, poolHeld, mails, now, budget, faults, ticks, responses>>

(* ----------------------------- POST /tasks ----------------------------- *)
Titles == {"", "milk"}

ArriveCreate(r) ==
    /\ Free(r)
    /\ \E b \in Bearers, t \in Titles :
         Upd(r, [IdleReq EXCEPT !.kind = "create", !.pc = "authenticate",
                                !.bearer = b, !.title = t])
    /\ budget' = budget - 1
    /\ UNCHANGED <<store, currentUser, poolHeld, mails, now, faults, ticks, responses>>

\* z.object({title: z.string().min(1), description: z.string().min(1)})
ValidTitle(t) == t # ""

\* validate(...): 400 on a ZodError; else the handler: await req.json();
\* const user = getUser(); newTask.user = user
CreateValidateStep(q, user) ==
    IF ~ValidTitle(q.title) THEN Respond(q, 400, "ZodError")
    ELSE [q EXCEPT !.pc = "save", !.readUser = user, !.at = now]

CreateValidate(r) ==
    /\ At(r, "create", "validate")
    /\ Upd(r, CreateValidateStep(req[r], GetUser))
    /\ UNCHANGED <<store, currentUser, poolHeld, mails, now, budget, faults, ticks, responses>>

NewTask(q) ==
    [id |-> nextId.tasks, title |-> q.title, user |-> q.readUser,
     completed |-> FALSE, createdAt |-> q.at]

\* await manager.save(newTask); return json({status, data: {task: newTask}})
CreateSave(r) ==
    /\ At(r, "create", "save")
    /\ tasks' = tasks \cup {NewTask(req[r])}
    /\ nextId' = [nextId EXCEPT !.tasks = @ + 1]
    /\ Upd(r, Respond([req[r] EXCEPT !.result = {NewTask(req[r])}], 200, "success"))
    /\ UNCHANGED <<users, refreshTokens, currentUser, poolHeld, mails, now,
                   budget, faults, ticks, responses>>

(* --------------------------- PUT /tasks/:id ---------------------------- *)
\* Ids a client may name: the tasks there are and one there is not.
TaskIdInputs == {t.id : t \in tasks} \cup {nextId.tasks}

ArriveUpdate(r) ==
    /\ Free(r)
    /\ \E b \in Bearers, id \in TaskIdInputs, t \in {"", "eggs"} :
         Upd(r, [IdleReq EXCEPT !.kind = "update", !.pc = "authenticate",
                                !.bearer = b, !.taskId = id, !.title = t])
    /\ budget' = budget - 1
    /\ UNCHANGED <<store, currentUser, poolHeld, mails, now, faults, ticks, responses>>

\* validate(...), then the handler up to findOneBy(Task, {id, user: getUser()})
UpdateValidateStep(q, user) ==
    IF ~ValidTitle(q.title) THEN Respond(q, 400, "ZodError")
    ELSE [q EXCEPT !.pc = "find", !.readUser = user]

UpdateValidate(r) ==
    /\ At(r, "update", "validate")
    /\ Upd(r, UpdateValidateStep(req[r], GetUser))
    /\ UNCHANGED <<store, currentUser, poolHeld, mails, now, budget, faults, ticks, responses>>

\* findOneBy(Task, {id, user})
FindTask(id, uid) == {t \in tasks : t.id = id /\ t.user = uid}

\* if (!task) throw new Error(`Task ${taskId} not found`)
UpdateFindStep(q, found) ==
    IF found = {} THEN OnError(q, "Error: Task not found")
    ELSE [q EXCEPT !.pc = "save", !.at = now]

UpdateFind(r) ==
    /\ At(r, "update", "find")
    /\ Upd(r, UpdateFindStep(req[r], FindTask(req[r].taskId, req[r].readUser)))
    /\ UNCHANGED <<store, currentUser, poolHeld, mails, now, budget, faults, ticks, responses>>

\* task.title = title; ...; await manager.save(task)
SaveTask(id, title) ==
    {IF t.id = id THEN [t EXCEPT !.title = title] ELSE t : t \in tasks}

UpdateSave(r) ==
    /\ At(r, "update", "save")
    /\ tasks' = SaveTask(req[r].taskId, req[r].title)
    /\ Upd(r, Respond([req[r] EXCEPT
                         !.result = {t \in tasks' : t.id = req[r].taskId}],
                      200, "success"))
    /\ UNCHANGED <<users, refreshTokens, nextId, currentUser, poolHeld, mails,
                   now, budget, faults, ticks, responses>>

(* -------------------------- DELETE /tasks/:id -------------------------- *)
ArriveDelete(r) ==
    /\ Free(r)
    /\ \E b \in Bearers, id \in TaskIdInputs :
         Upd(r, [IdleReq EXCEPT !.kind = "delete", !.pc = "authenticate",
                                !.bearer = b, !.taskId = id])
    /\ budget' = budget - 1
    /\ UNCHANGED <<store, currentUser, poolHeld, mails, now, faults, ticks, responses>>

\* task = await findOneBy(Task, {id, user}); if (!task) return 400
DeleteFindStep(q, found) ==
    IF found = {} THEN Respond(q, 400, "Task not found")
    ELSE [q EXCEPT !.pc = "remove", !.result = found]

DeleteFind(r) ==
    /\ At(r, "delete", "find")
    /\ Upd(r, DeleteFindStep(req[r], FindTask(req[r].taskId, req[r].readUser)))
    /\ UNCHANGED <<store, currentUser, poolHeld, mails, now, budget, faults, ticks, responses>>

\* await manager.remove(task)
DeleteRemove(r) ==
    /\ At(r, "delete", "remove")
    /\ tasks' = {t \in tasks : t.id # req[r].taskId}
    /\ Upd(r, Respond(req[r], 200, "success"))
    /\ UNCHANGED <<users, refreshTokens, nextId, currentUser, poolHeld, mails,
                   now, budget, faults, ticks, responses>>

(* --------------------------- specifications --------------------------- *)
EmptyStore ==
    /\ users = {}
    /\ refreshTokens = {}
    /\ tasks = {}
    /\ nextId = [users |-> 1, refreshTokens |-> 1, tasks |-> 1]

Idle ==
    /\ currentUser = 0
    /\ poolHeld = 0
    /\ mails = {}
    /\ now = 0
    /\ req = [r \in Slots |-> IdleReq]
    /\ responses = SetToBag({t.user : t \in refreshTokens})

\* The register route alone, on a store that can fail.
InitRegister ==
    /\ EmptyStore /\ Idle
    /\ budget = MaxRegisterRequests
    /\ faults = MaxFaults
    /\ ticks = 0

NextRegister ==
    \E r \in Slots :
        \/ ArriveRegister(r)
        \/ RegisterValidate(r)
        \/ RegisterConnect(r)
        \/ RegisterStartTransaction(r)
        \/ RegisterInsert(r)
        \/ RegisterCommit(r)
        \/ RegisterIssue(r)
        \/ RegisterCatch(r)
        \/ RegisterFinally(r)

SpecRegister == InitRegister /\ [][NextRegister]_vars

\* The user a@x.io registered in an earlier run of the server.
RegisteredStore ==
    /\ users = {[id |-> 1, email |-> "a@x.io", password |-> BcryptHash("secret1"),
                 emailVerifiedAt |-> <<>>, txn |-> 0]}
    /\ refreshTokens = {[id |-> 1, token |-> 1, user |-> 1, createdAt |-> 0,
                         expiredAt |-> RefreshLifetime]}
    /\ tasks = {}
    /\ nextId = [users |-> 2, refreshTokens |-> 2, tasks |-> 1]

\* All four auth routes and the clock.
InitAuth ==
    /\ RegisteredStore /\ Idle
    /\ budget = MaxAuthRequests
    /\ faults = MaxAuthFaults
    /\ ticks = MaxTicks

NextAuth ==
    \/ Tick
    \/ NextRegister
    \/ \E r \in Slots :
        \/ ArriveLogin(r)
        \/ LoginLookup(r)
        \/ LoginIssue(r)
        \/ ArriveRequestVerification(r)
        \/ RequestVerificationLookup(r)
        \/ RequestVerificationSend(r)
        \/ ArriveVerify(r)
        \/ VerifyCheck(r)
        \/ VerifySave(r)

SpecAuth == InitAuth /\ [][NextAuth]_vars

\* The users a@x.io and b@x.io registered in an earlier run of the server.
TwoUsersStore ==
    /\ users = {[id |-> 1, email |-> "a@x.io", password |-> BcryptHash("secret1"),
                 emailVerifiedAt |-> <<>>, txn |-> 0],
                [id |-> 2, email |-> "b@x.io", password |-> BcryptHash("secret2"),
                 emailVerifiedAt |-> <<>>, txn |-> 0]}
    /\ refreshTokens = {[id |-> i, token |-> i, user |-> i, createdAt |-> 0,
                         expiredAt |-> RefreshLifetime] : i \in {1, 2}}
    /\ tasks = {}
    /\ nextId = [users |-> 3, refreshTokens |-> 3, tasks |-> 1]

\* The /tasks routes behind the authentication middleware.
InitTasks ==
    /\ TwoUsersStore /\ Idle
    /\ budget = MaxTaskRequests
    /\ faults = 0
    /\ ticks = 0

NextTasks ==
    \E r \in Slots :
        \/ Authenticate(r)
        \/ ArriveList(r)
        \/ ListGetUser(r)
        \/ ListFind(r)
        \/ ArriveCreate(r)
        \/ CreateValidate(r)
        \/ CreateSave(r)
        \/ ArriveUpdate(r)
        \/ UpdateValidate(r)
        \/ UpdateFind(r)
        \/ UpdateSave(r)
        \/ ArriveDelete(r)
        \/ DeleteFind(r)
        \/ DeleteRemove(r)

SpecTasks == InitTasks /\ [][NextTasks]_vars

(* ======================== register: C3 .. C6 =========================== *)
Registers == {r \in Slots : req[r].kind = "register"}

DoneRegisters == {r \in Registers : req[r].pc = "done"}

\* C3: in every reachable state of the store no two User rows (committed or
\* written by a transaction still open) have the same email, also when
\* several register requests for one fresh email pass the existence check
\* before any of them inserts.
C3_UniqueEmail ==
    \A u, v \in users : u.email = v.email => u = v

\* Two requests for one email both passed validation; one holds the row,
\* the other was refused by the unique index.
C3_Witness ==
    \E r1, r2 \in Registers :
        /\ r1 # r2
        /\ req[r1].email = req[r2].email
        /\ req[r1].uid # 0
        /\ \E u \in users : u.id = req[r1].uid
        /\ req[r2].err = "QueryFailedError: ER_DUP_ENTRY"

\* A register step taken by slot r.
Moved(r) == req'[r] # req[r]

C4_Success(r) ==
    /\ req[r].token # NoToken
    /\ req[r].token.userId = req[r].uid
    /\ req[r].refreshToken # 0
    /\ \E t \in refreshTokens : t.token = req[r].refreshToken /\ t.user = req[r].uid
    /\ \E u \in Committed : u.id = req[r].uid /\ u.email = req[r].email
    /\ Cardinality({u \in users : u.email = req[r].email}) = 1
    /\ \A r2 \in DoneRegisters \ {r} :
          req[r2].status = 200 => req[r2].email # req[r].email

C4_State ==
    \A r \in DoneRegisters :
        /\ req[r].status = 200 => C4_Success(r)
        /\ req[r].status = 200 <=> req[r].err = "" /\ req[r].uid # 0
        /\ req[r].status \in {200, 400, 500}

C4_Rejected(r) ==
    /\ req'[r].pc = "done"
    /\ req'[r].status = 400
    /\ req'[r].runner = "none"
    /\ req'[r].obtained = 0
    /\ ~req'[r].txActive
    /\ req'[r].uid = 0
    /\ req'[r].refreshToken = 0
    /\ UNCHANGED <<store, poolHeld>>

C4_Step ==
    /\ \A r \in Slots :
          At(r, "register", "validate") /\ ExistsByEmail(req[r].email) /\ Moved(r)
              => C4_Rejected(r)
    /\ \A u \in Committed : u \in users'

TransactionErrors ==
    {"ConnectError", "StartTransactionError", "HashError", "InsertError",
     "QueryFailedError: ER_DUP_ENTRY", "CommitError"}

\* C5: when a step of register's transaction (connect, startTransaction,
\* hash, insert, commit) fails, the request ends with no transaction
\* active, the store holds no User row created by the request, and the
\* error raised to the caller is the failure that occurred.
C5_RollbackAndReraise ==
    \A r \in DoneRegisters :
        req[r].err \in TransactionErrors =>
            /\ ~req[r].txActive
            /\ \A u \in users : u.txn # r /\ (req[r].uid # 0 => u.id # req[r].uid)
            /\ req[r].raised = req[r].err
            /\ req[r].status = 500
            /\ req[r].msg = req[r].err

\* C6: a runner holds at most one connection, the pool counts exactly the
\* connections held by requests in flight, and a register request that has
\* finished has released every connection it obtained, exactly once, on
\* every exit path.
C6_Released ==
    /\ \A r \in Slots :
          /\ req[r].releases <= req[r].obtained
          /\ req[r].obtained <= 1
          /\ req[r].pc = "done" => req[r].releases = req[r].obtained
    /\ poolHeld = Cardinality({r \in Slots : Holds(req[r])})
    /\ (\A r \in Slots : req[r].pc \in {"idle", "done"}) => poolHeld = 0

\* A request whose rollback itself failed, and one whose token issuance
\* failed after the commit, have finished with their connection released.
C6_Witness ==
    \E r \in DoneRegisters :
        /\ req[r].obtained = 1
        /\ req[r].releases = 1
        /\ req[r].raised \in {"RollbackError", "TransactionNotStartedError"}
        /\ req[r].err \in {"CommitError", "SaveTokenError"}
(* ========================== login: C7 ================================== *)
DoneLogins == {r \in Slots : req[r].kind = "login" /\ req[r].pc = "done"}

\* The lookup of request r found no row / found a row whose hash is not the
\* hash of the request's password.
C7_NoSuchUser(r) == req[r].uid = 0

C7_WrongPassword(r) ==
    \E u \in users : u.id = req[r].uid /\ u.password # BcryptHash(req[r].password)

C7_Response(r) ==
    <<req[r].status, req[r].msg, req[r].token, req[r].refreshToken>>

C7_State ==
    /\ \A r \in DoneLogins :
          /\ C7_NoSuchUser(r) \/ C7_WrongPassword(r) =>
                /\ req[r].status = 400
                /\ req[r].token = NoToken
                /\ req[r].refreshToken = 0
          /\ ~C7_NoSuchUser(r) /\ ~C7_WrongPassword(r) /\ req[r].err = "" =>
                /\ req[r].status = 200
                /\ req[r].token.userId = req[r].uid
                /\ req[r].token.email = req[r].email
                /\ req[r].token.sig = "ok"
                /\ \E t \in refreshTokens :
                      t.token = req[r].refreshToken /\ t.user = req[r].uid
    /\ \A r1, r2 \in DoneLogins :
          C7_NoSuchUser(r1) /\ C7_WrongPassword(r2) => C7_Response(r1) = C7_Response(r2)

C7_Step ==
    \A r \in Slots :
        req[r].kind = "login" /\ Moved(r) /\ req'[r].status = 400 => UNCHANGED store

\* C7: a login for an email with no User row and a login for an existing
\* email with a wrong password get the same response (400, same message, no
\* tokens) and the step that answers them leaves the store unchanged; a
\* login with an existing email and its password, when nothing throws,
\* returns 200 with a token for that user and the refreshToken of a row
\* owned by that user.
C7_LoginUniform == []C7_State /\ [][C7_Step]_vars

\* Both refusals are on record: unknown email, and wrong password.
C7_Witness ==
    \E r1, r2 \in DoneLogins :
        /\ C7_NoSuchUser(r1)
        /\ C7_WrongPassword(r2)
        /\ req[r1].status = 400
        /\ req[r2].status = 400

(* ========================= verify: C8, C9 ============================== *)
Verifies == {r \in Slots : req[r].kind = "verify"}

\* Verify requests whose link has been judged.
Judged == {r \in Verifies : req[r].pc \in {"save", "done"}}

C8_SignatureMatches(r) ==
    req[r].signature = HashHmac(Payload(req[r].email, req[r].rawAt))

\* now - parse(request_at) <= 10 minutes
C8_WithinWindow(r) ==
    /\ ParseInt(req[r].rawAt) # <<>>
    /\ req[r].at - ParseInt(req[r].rawAt)[1] <= VerifyWindow

C8_Passed(r) ==
    ~(req[r].status = 400 /\ req[r].msg \in {"Invalid signature", "Request expired"})

\* C8: link validation passes iff the signature is the HMAC of
\* email # request_at over the raw request_at and
\* now - parse(request_at) <= 10 minutes; a signature that does not match
\* is answered 'Invalid signature' whatever the elapsed time, a matching
\* one after more than 10 minutes 'Request expired'.
C8_LinkValidation ==
    \A r \in Judged :
        /\ C8_Passed(r) <=> C8_SignatureMatches(r) /\ C8_WithinWindow(r)
        /\ ~C8_SignatureMatches(r) =>
              req[r].status = 400 /\ req[r].msg = "Invalid signature"
        /\ C8_SignatureMatches(r) /\ ~C8_WithinWindow(r) =>
              req[r].status = 400 /\ req[r].msg = "Request expired"

\* C9 as claimed: once emailVerifiedAt of a User is set it never changes.
C9_WrittenOnce ==
    [][\A u \in users, v \in users' :
          v.id = u.id /\ u.emailVerifiedAt # <<>> =>
              v.emailVerifiedAt = u.emailVerifiedAt]_vars

C9_Step ==
    /\ \A u \in users, v \in users' :
          v.id = u.id =>
              /\ u.emailVerifiedAt # <<>> => v.emailVerifiedAt # <<>>
              /\ v.emailVerifiedAt # u.emailVerifiedAt =>
                    \E r \in Slots :
                        /\ At(r, "verify", "save")
                        /\ req[r].uid = u.id
                        /\ req[r].email = u.email
                        /\ v.emailVerifiedAt = <<req[r].at>>
                        /\ req'[r].status = 200
    /\ \A v \in users' :
          (\A u \in users : u.id # v.id) => v.emailVerifiedAt = <<>>

\* C9 amended: emailVerifiedAt of a User starts null, is changed only by a
\* successful verification of that user's email, which sets it to the time
\* of that request, and once set is never null again; a further successful
\* verification overwrites it with its own time.
C9_SetByVerification == [][C9_Step]_vars

\* Two successful verifications of one user at different times.
C9_Witness ==
    \E r1, r2 \in Verifies :
        /\ req[r1].status = 200
        /\ req[r2].status = 200
        /\ req[r1].uid = req[r2].uid
        /\ req[r1].at # req[r2].at
        /\ \E u \in users : u.id = req[r1].uid /\ u.emailVerifiedAt # <<>>

(* ==================== request-verification: C10 ======================== *)
C10_Unverified(e) ==
    \E u \in Committed : u.email = e /\ u.emailVerifiedAt = <<>>

C10_Step ==
    /\ \A r \in Slots :
          At(r, "requestVerification", "lookup") /\ Moved(r) =>
              IF C10_Unverified(req[r].email)
              THEN req'[r].pc = "send"
              ELSE /\ req'[r].pc = "done"
                   /\ req'[r].status = 404
                   /\ req'[r].msg = "User not found"
                   /\ UNCHANGED <<store, mails>>
    /\ \A m \in mails' \ mails :
          \E r \in Slots : At(r, "requestVerification", "send") /\ m.to = req[r].email

\* C10: request-verification goes on to build a link and dispatch mail
\* only if a User with that email and a null emailVerifiedAt exists; for an
\* email with no User, and for one whose User is verified, it answers
\* 'User not found' (404), sends no mail and changes no state.
C10_OnlyUnverified == [][C10_Step]_vars
(* ======================= refresh tokens: C11 =========================== *)
\* RefreshToken rows owned by user u.
C11_Owned(u) == {t \in refreshTokens : t.user = u}

\* Register requests for user u whose try block has returned its 200
\* response and whose finally block has not run yet.
C11_Returning(u) ==
    {r \in Registers : req[r].pc = "finally" /\ req[r].raised = "" /\ req[r].uid = u}

C11_State ==
    /\ \A u \in 1..(nextId.users - 1) :
          Cardinality(C11_Owned(u)) =
              CopiesIn(u, responses) + Cardinality(C11_Returning(u))
    /\ \A r \in DoneRegisters \cup DoneLogins :
          req[r].status # 200 => req[r].refreshToken = 0

C11_Step ==
    /\ \A t \in refreshTokens : t \in refreshTokens'
    /\ \A t \in refreshTokens' \ refreshTokens :
          /\ refreshTokens' = refreshTokens \cup {t}
          /\ \A o \in refreshTokens : o.id # t.id /\ o.token # t.token
          /\ \E r \in Slots :
                /\ req[r].kind \in {"register", "login"}
                /\ req[r].pc = "issue"
                /\ t.user = req[r].uid
                /\ req'[r].refreshToken = t.token
                /\ \/ req'[r].pc = "done" /\ req'[r].status = 200
                   \/ req'[r].pc = "finally" /\ req'[r].raised = ""
    /\ \A r \in Slots :
          /\ req[r].kind \in {"register", "login"}
          /\ Moved(r)
          /\ req'[r].pc = "done"
          /\ req'[r].status = 200
          => \E t \in refreshTokens' :
                /\ t.token = req'[r].refreshToken
                /\ t.user = req'[r].uid
                /\ CopiesIn(t.user, responses') = CopiesIn(t.user, responses) + 1

\* C11: the RefreshToken rows owned by a user are as many as the successful
\* register and login responses returned for that user (counting a register
\* response already returned by the try block while its finally block
\* runs); a step adds at most one row, a fresh one owned by the user of the
\* register or login request that then succeeds; a request that fails has
\* inserted none; no row is ever changed or removed.
C11_OneRowPerSuccess == []C11_State /\ [][C11_Step]_vars

\* A user with two rows after a successful login, with a login whose token
\* save failed on record as well.
C11_Witness ==
    \E r1, r2 \in DoneLogins :
        /\ req[r1].status = 200
        /\ req[r2].status = 500
        /\ req[r2].err = "SaveTokenError"
        /\ req[r1].uid = req[r2].uid
        /\ Cardinality(C11_Owned(req[r1].uid)) = 2
        /\ CopiesIn(req[r1].uid, responses) = 2

(* ===================== current user: C1, C2 ============================ *)
TaskRequests == {r \in Slots : req[r].kind \in TaskKinds}

\* The user the middleware resolved from the bearer token of request r.
C1_Authenticated(r) == UserIdOf(FindUserByEmail(req[r].bearer.email))

\* C1: every read of the current user by a task handler returns the user the
\* middleware resolved from that request's bearer token, and a task created
\* by POST /tasks is owned by the user whose token authenticated the request.
C1_ReadsOwnUser ==
    \A r \in TaskRequests :
        /\ req[r].readUser # 0 => req[r].readUser = C1_Authenticated(r)
        /\ req[r].kind = "create" /\ req[r].status = 200 =>
              \A t \in req[r].result : t.user = C1_Authenticated(r)

\* C2: the response of GET /tasks to a request authenticated as A holds
\* only tasks whose owner is A.
C2_ListsOwnTasks ==
    \A r \in TaskRequests :
        req[r].kind = "list" /\ req[r].status = 200 =>
            \A t \in req[r].result : t.user = C1_Authenticated(r)

(* ======================= authentication: C12 =========================== *)
\* The bearer token of request r is missing, wrongly signed or expired.
C12_BadToken(r) == JwtVerify(req[r].bearer, now) # ""

C12_State ==
    \A r \in TaskRequests :
        C12_BadToken(r) /\ req[r].pc # "authenticate" =>
            /\ req[r].pc = "done"
            /\ req[r].status = 401
            /\ req[r].readUser = 0
            /\ req[r].result = {}

C12_Step ==
    \A r \in TaskRequests :
        C12_BadToken(r) /\ Moved(r) => UNCHANGED <<currentUser, tasks>>

\* C12: a /tasks request whose bearer token is missing, wrongly signed or
\* expired is answered 401 by the middleware step, its handler reads no
\* user and no task, and that step leaves currentUser and the Task rows as
\* they were.
C12_Unauthorized == []C12_State /\ [][C12_Step]_vars

(* ========================= ownership: C13 ============================== *)
\* The id named by request r is not the id of a task of the user its token
\* authenticates: a task of another user, or no task at all.
C13_NotOwn(r) ==
    \A t \in tasks : t.id = req[r].taskId => t.user # C1_Authenticated(r)

\* The response of the operation to an id that does not exist.
C13_NotFound(r) ==
    IF req[r].kind = "update"
    THEN req'[r].status = 500 /\ req'[r].msg = "Error: Task not found"
    ELSE req'[r].status = 400 /\ req'[r].msg = "Task not found"

C13_Step ==
    /\ \A r \in Slots :
          /\ req[r].kind \in {"update", "delete"}
          /\ req[r].pc = "find"
          /\ Moved(r)
          /\ C13_NotOwn(r)
          => /\ req'[r].pc = "done"
             /\ C13_NotFound(r)
             /\ req'[r].result = {}
             /\ UNCHANGED tasks
    /\ \A t \in tasks \ tasks' :
          \E r \in Slots :
              /\ req[r].kind \in {"update", "delete"}
              /\ Moved(r)
              /\ req[r].taskId = t.id
              /\ C1_Authenticated(r) = t.user

\* C13: PUT /tasks/:id and DELETE /tasks/:id issued by user A for an id
\* that is a task of another user are answered as for an id that is no
\* task at all, and a Task row is changed or removed only by a request of
\* its owner.
C13_ForeignAsMissing == [][C13_Step]_vars

(* ===================== register rollback: C14 ========================== *)
\* Request r failed after its startTransaction succeeded and before its
\* commitTransaction completed.
C14_InTransaction(r) ==
    /\ req[r].txActive
    /\ req[r].err \in {"HashError", "InsertError", "QueryFailedError: ER_DUP_ENTRY",
                       "CommitError"}

\* C14: register reaches rollbackTransaction only with the transaction of
\* that request active (never after a failed connect or startTransaction,
\* nor after a failed token issuance that follows the commit), and a request
\* whose User row is committed is not answered with an error.
C14_RollbackOnlyActive ==
    \A r \in Registers :
        /\ req[r].pc = "catch" => C14_InTransaction(r)
        /\ req[r].pc = "done" /\ (\E u \in Committed : u.id = req[r].uid) =>
              req[r].status = 200
====
